---- MODULE Spec2Model ----
(***************************************************************************)
(* Model of components/rendering/src/markdown.rs: markdown_to_html, the    *)
(* closure that rewrites each pulldown_cmark event, and find_anchor.       *)
(*                                                                         *)
(* Strings are sequences of tokens (a token is a TLA+ string): the text    *)
(* "{{ a() }}" is <<"{{", " ", "a", "(", ")", " ", "}}">>, the slug        *)
(* "example-1" is <<"example", "-", "1">>, and the html buffer is the      *)
(* concatenation of the fragments pushed so far.                           *)
(* Option<T> is a sequence of length 0 (None) or 1 (Some).                 *)
(***************************************************************************)
EXTENDS Integers, Sequences, FiniteSets, TLC

VARIABLES
    ctx,                      \* context: &Context and the facts about content
    should_highlight,
    error,
    highlighter,
    shortcode_block,
    added_shortcode,
    in_code_block,
    in_header,
    header_already_inserted,
    anchors,
    headers,
    temp_header,
    html,
    doc,                      \* tokenizer: the kind of document being read
    open,                     \* tokenizer: tags opened and not yet closed
    consumed,                 \* tokenizer: number of events delivered
    events,                   \* the events the closure was called with, in order
    out,                      \* the event the closure last returned
    calls,                    \* template engine: shortcode renders requested
    errs,                     \* every error value produced, in order
    lookups,                  \* every link resolve_internal_link was given
    pc,
    result,
    fa_args,                  \* find_anchor called on its own: arguments
    fa_ret                    \* find_anchor called on its own: return value

vars == <<ctx, should_highlight, error, highlighter, shortcode_block,
          added_shortcode, in_code_block, in_header, header_already_inserted,
          anchors, headers, temp_header, html, doc, open, consumed, events,
          out, calls, errs, lookups, pc, result, fa_args, fa_ret>>

-----------------------------------------------------------------------------
(* Bounds of the explored documents and registries                         *)

\* longest AnchorRegistry find_anchor is called with on its own
MaxRegistry == 3

\* longest event stream of a document mixing every kind of event
MaxEvents == 5
\* longest event stream of a document made of paragraphs holding texts, soft
\* breaks and inline code
MaxParagraphEvents == 6
\* longest event stream of a document made of headers only
MaxHeaderEvents == 9
MaxCodeEvents == 7
MaxTitleEvents == 6
\* events read after the colliding headers of a "collisions" document
MaxCollisionEvents == 6

-----------------------------------------------------------------------------
(* Option and string helpers                                               *)

None == <<>>
Some(x) == <<x>>
IsSome(o) == o # <<>>
IsNone(o) == o = <<>>
Unwrap(o) == o[1]

StartsWith(text, tok) == Len(text) > 0 /\ text[1] = tok
EndsWith(text, tok) == Len(text) > 0 /\ text[Len(text)] = tok

IsWhite(tok) == tok \in {" ", "\n"}

RECURSIVE TrimStart(_)
TrimStart(text) ==
    IF Len(text) > 0 /\ IsWhite(text[1]) THEN TrimStart(Tail(text)) ELSE text

RECURSIVE TrimEnd(_)
TrimEnd(text) ==
    IF Len(text) > 0 /\ IsWhite(text[Len(text)])
    THEN TrimEnd(SubSeq(text, 1, Len(text) - 1))
    ELSE text

Trim(text) == TrimEnd(TrimStart(text))

-----------------------------------------------------------------------------
(* The inputs: contexts, texts, link targets, code-block info strings      *)

InsertAnchors == {"Left", "Right", "None"}

\* What the template engine holds for the shortcode name used in the texts:
\* a template that renders an element around the body, a template that
\* renders the body as a paragraph, or no such template.
Templates == {"element", "paragraph", "missing"}

\* highlighting::THEME_SET.themes: the names the theme set has an entry for
ThemeNames == {"base16-ocean-dark"}

\* the names a caller may give as highlight_theme
Themes == ThemeNames \cup {"no-such-theme"}

Contexts ==
    [highlight_code : BOOLEAN,
     highlight_theme : Themes,
     content_has_fence : BOOLEAN,
     insert_anchor : InsertAnchors,
     template : Templates,
     anchor_link_template : BOOLEAN,
     current_page_permalink : {<<"/page/">>}]

TxtExample == <<"Example">>
TxtExample1 == <<"Example", " ", "1">>
TxtInline == <<"{{", " ", "a", "(", ")", " ", "}}">>
TxtInlineBad == <<"{{", " ", "bad", " ", "}}">>
TxtBlock == <<"{%", " ", "a", "(", "k", "=", "v", ")", " ", "%}">>
TxtEnd == <<"{%", " ", "end", " ", "%}">>
TxtEndNl == <<"{%", " ", "end", " ", "%}", "\n">>

Texts == {TxtExample, TxtExample1, TxtInline, TxtInlineBad, TxtBlock, TxtEnd,
          TxtEndNl}
HeaderTexts == {TxtExample, TxtExample1}
CodeTexts == {TxtExample, TxtInline}
TitleTexts == {TxtExample, TxtInline, TxtBlock, TxtEnd}

LinkOther == <<"./", "other.md">>
LinkMissing == <<"./", "missing.md">>
LinkAbsolute == <<"https://", "example.org">>
Links == {LinkOther, LinkMissing, LinkAbsolute}
LinkTitle == <<"t">>

Infos == {<<"rust">>, <<"nolang", " ", "rust">>}
HeaderLevels == {1, 2}

-----------------------------------------------------------------------------
(* Collaborators outside markdown.rs                                       *)

\* short_code::SHORTCODE_RE: an opening "{{" or "{%", whitespace, a name,
\* a parenthesised argument list, whitespace, a closing "}}" or "%}",
\* found anywhere in the text.
IsAlnum(tok) ==
    tok \in {"Example", "example", "a", "bad", "end", "k", "v",
             "0", "1", "2", "3", "4", "5", "6", "7", "8", "9"}

\* the index of the first ")" at or after i, 0 when there is none
RECURSIVE CloseParen(_, _)
CloseParen(text, i) ==
    IF i > Len(text) THEN 0
    ELSE IF text[i] = ")" THEN i
    ELSE CloseParen(text, i + 1)

MatchAt(text, i) ==
    /\ text[i] \in {"{{", "{%"}
    /\ i + 3 <= Len(text)
    /\ IsWhite(text[i + 1])
    /\ IsAlnum(text[i + 2])
    /\ text[i + 3] = "("
    /\ LET j == CloseParen(text, i + 4)
       IN  /\ j > 0
           /\ j + 2 <= Len(text)
           /\ IsWhite(text[j + 1])
           /\ text[j + 2] \in {"}}", "%}"}

ShortcodeReIsMatch(text) == \E i \in 1..Len(text) : MatchAt(text, i)

\* short_code::parse_shortcode: the name and the arguments of the match
parse_shortcode(text) ==
    LET i == CHOOSE j \in 1..Len(text) : MatchAt(text, j)
    IN  [name |-> text[i + 2],
         args |-> SubSeq(text, i + 4, CloseParen(text, i + 4) - 1)]

\* ShortCode::new
NewShortCode(name, args) == [name |-> name, args |-> args, body |-> <<>>]

\* Result<T>
Ok(v) == [ok |-> TRUE, val |-> v]
Err(e) == [ok |-> FALSE, val |-> e]

\* The template engine rendering a shortcode (render_simple_shortcode and
\* ShortCode::render end in it): the rendered text or a templating error.
TeraRender(template, name, args, body) ==
    CASE template = "element" ->
            Ok(<<"<div class=", name>> \o args \o <<">">> \o body \o <<"</div>">>)
      [] template = "paragraph" ->
            Ok(<<"<p>">> \o body \o <<"</p>">>)
      [] OTHER -> Err(<<"shortcode template not found", name>>)

\* utils::site::resolve_internal_link against context.permalinks
resolve_internal_link(link) ==
    IF link = LinkOther THEN Ok(<<"/other/">>) ELSE Err(<<"not found">>)

\* slug::slugify: alphanumerics lower-cased, every run of other characters
\* one "-", no "-" at either end
Lower(tok) == IF tok = "Example" THEN "example" ELSE tok

RECURSIVE SlugRuns(_, _, _)
SlugRuns(text, started, pending) ==
    IF text = <<>> THEN <<>>
    ELSE IF IsAlnum(Head(text))
         THEN (IF started /\ pending THEN <<"-">> ELSE <<>>)
              \o <<Lower(Head(text))>> \o SlugRuns(Tail(text), TRUE, FALSE)
         ELSE SlugRuns(Tail(text), started, TRUE)

slugify(text) == SlugRuns(text, FALSE, FALSE)

\* decimal formatting ("{}" of an integer), one token per digit
Digits == <<"0", "1", "2", "3", "4", "5", "6", "7", "8", "9">>
RECURSIVE FormatNat(_)
FormatNat(n) ==
    IF n < 10 THEN <<Digits[n + 1]>>
    ELSE FormatNat(n \div 10) \o <<Digits[(n % 10) + 1]>>

\* level: u8, the width of find_anchor's counter
U8Max == 255
\* the headers of one title that use up every suffix a u8 can count:
\* slug, slug-1 .. slug-255
CollidingHeaders == U8Max + 1
\* the outcome of find_anchor when level + 1 does not fit in a u8
Overflowed == <<"attempt to add with overflow">>

Contains(seq, x) == \E i \in 1..Len(seq) : seq[i] = x

RECURSIVE find_anchor(_, _, _)

\* find_anchor without the check of the suffixed identifier
find_anchor_unchecked(anchor_list, name, level) ==
    IF ~Contains(anchor_list, name) THEN name
    ELSE name \o <<"-">> \o FormatNat(1)

\* find_anchor formatting level where the code formats level + 1
find_anchor_from_level(anchor_list, name, level) ==
    IF level = 0 /\ ~Contains(anchor_list, name) THEN name
    ELSE LET new_anchor == name \o <<"-">> \o FormatNat(level)
         IN  IF ~Contains(anchor_list, new_anchor) THEN new_anchor
             ELSE find_anchor(anchor_list, name, level + 1)

\* The call find_anchor(anchors, name, level + 1) is the function's last
\* step, so the recursion is the loop level, level + 1, ..: it returns
\* new_anchor at the first level whose new_anchor is not in anchors, and it
\* reaches level + 1 on 255 when there is none.
find_anchor(anchor_list, name, level) ==
    LET new_anchor(l) == name \o <<"-">> \o FormatNat(l + 1)
        levels == level..(U8Max - 1)
    IN  IF level = 0 /\ ~Contains(anchor_list, name) THEN name
        ELSE IF \E l \in levels : ~Contains(anchor_list, new_anchor(l))
             THEN new_anchor(CHOOSE l \in levels :
                                /\ ~Contains(anchor_list, new_anchor(l))
                                /\ \A j \in level..(l - 1) :
                                       Contains(anchor_list, new_anchor(j)))
        ELSE Overflowed

\* find_anchor(&anchors, name, 0) as the build runs it.  level + 1 on a u8
\* holding 255 panics when the build checks overflow (the debug profile) and
\* wraps to 0 when it does not (the release profile): the wrapped call tries
\* name-0, and when that is taken it starts again from level 0 and never
\* returns.
FindAnchorCall(anchor_list, name, overflow_checks) ==
    LET returned == find_anchor(anchor_list, name, 0)
        wrapped == name \o <<"-">> \o FormatNat(0)
    IN  IF returned # Overflowed THEN [kind |-> "returned", id |-> returned]
        ELSE IF overflow_checks THEN [kind |-> "panicked", id |-> <<>>]
        ELSE IF ~Contains(anchor_list, wrapped)
             THEN [kind |-> "returned", id |-> wrapped]
        ELSE [kind |-> "diverged", id |-> <<>>]

\* the builds that differ on a Text event: both where level + 1 overflows
OverflowChecksAt(path) == IF path = "overflow" THEN BOOLEAN ELSE {TRUE}

\* TempHeader::default, TempHeader::new
DefaultTempHeader == [level |-> 0, id |-> <<>>, title |-> <<>>, permalink |-> <<>>]
NewTempHeader(num) == [level |-> num, id |-> <<>>, title |-> <<>>, permalink |-> <<>>]

\* table_of_contents::make_table_of_contents: headers nested by level.  A
\* header is a child of the nearest earlier header that every header since
\* is deeper than; a header with no such header opens a top-level entry.
IsTopHeader(hs, i) ==
    ~\E j \in 1..(i - 1) : \A k \in (j + 1)..i : hs[k].level > hs[j].level

\* the top-level headers among hs[from..to], in order
RECURSIVE TopHeaders(_, _, _)
TopHeaders(hs, from, to) ==
    IF from > to THEN <<>>
    ELSE IF from = to THEN (IF IsTopHeader(hs, from) THEN <<from>> ELSE <<>>)
    ELSE TopHeaders(hs, from, (from + to) \div 2)
         \o TopHeaders(hs, (from + to) \div 2 + 1, to)

RECURSIVE make_table_of_contents(_)
make_table_of_contents(hs) ==
    LET tops == TopHeaders(hs, 1, Len(hs))
        last(n) == IF n = Len(tops) THEN Len(hs) ELSE tops[n + 1] - 1
    IN  [n \in 1..Len(tops) |->
            [level |-> hs[tops[n]].level, id |-> hs[tops[n]].id,
             title |-> hs[tops[n]].title,
             permalink |-> hs[tops[n]].permalink,
             children |->
                 make_table_of_contents(SubSeq(hs, tops[n] + 1, last(n)))]]

\* syntect: SyntaxSet::find_syntax_by_token, find_syntax_plain_text,
\* HighlightLines::new, HighlightLines::highlight + styles_to_coloured_html,
\* start_coloured_html_snippet
HighlightTheme == ctx.highlight_theme

\* &THEME_SET.themes[&context.highlight_theme]: indexing the map by a name
\* it has no entry for panics
ThemeLookupPanics == HighlightTheme \notin ThemeNames

RECURSIVE FirstSplit(_)
FirstSplit(info) ==
    IF info = <<>> \/ Head(info) = " " THEN <<>>
    ELSE <<Head(info)>> \o FirstSplit(Tail(info))

FindSyntaxByToken(lang) == IF lang = <<"rust">> THEN Some("Rust") ELSE None
PlainTextSyntax == "Plain Text"

NewHighlightLines(syntax) == [syntax |-> syntax, lines |-> 0]

EscapeChar(tok) ==
    CASE tok = "<" -> "&lt;"
      [] tok = ">" -> "&gt;"
      [] tok = "&" -> "&amp;"
      [] OTHER -> tok

EscapeHtml(text) == [i \in 1..Len(text) |-> EscapeChar(text[i])]

Highlighted(h, text) ==
    <<"<span syntax=", h.syntax, ">">> \o EscapeHtml(text) \o <<"</span>">>

StartColouredHtmlSnippet == <<"<pre style=", HighlightTheme, ">", "\n">>

-----------------------------------------------------------------------------
(* Events (pulldown_cmark::Event) and the html serializer                  *)

Ev(kind, tag, s, arg, num) ==
    [kind |-> kind, tag |-> tag, s |-> s, arg |-> arg, num |-> num]

EvNone == Ev("None", "", <<>>, <<>>, 0)
EvText(text) == Ev("Text", "", text, <<>>, 0)
EvHtml(text) == Ev("Html", "", text, <<>>, 0)
EvSoftBreak == Ev("SoftBreak", "", <<>>, <<>>, 0)
EvStart(tag, s, arg, num) == Ev("Start", tag, s, arg, num)
EvEnd(tag, s, arg, num) == Ev("End", tag, s, arg, num)

\* pulldown_cmark::html::push_html, for the events of this model
PushHtml(e) ==
    CASE e.kind = "Html" -> e.s
      [] e.kind = "Text" -> EscapeHtml(e.s)
      [] e.kind = "SoftBreak" -> <<"\n">>
      [] e.kind = "Start" /\ e.tag = "Paragraph" -> <<"<p>">>
      [] e.kind = "End" /\ e.tag = "Paragraph" -> <<"</p>", "\n">>
      [] e.kind = "Start" /\ e.tag = "Link" ->
            <<"<a href=">> \o e.s \o <<" title=">> \o e.arg \o <<">">>
      [] e.kind = "End" /\ e.tag = "Link" -> <<"</a>">>
      [] e.kind = "Start" /\ e.tag = "Code" -> <<"<code>">>
      [] e.kind = "End" /\ e.tag = "Code" -> <<"</code>">>
      [] e.kind = "End" /\ e.tag = "Header" ->
            <<"</h">> \o FormatNat(e.num) \o <<">", "\n">>
      [] OTHER -> <<>>

\* str::replace("<p></p>", ""): every match, found left to right in the
\* original string, is removed.  Two matches never overlap, so the string
\* is cut in two between matches and each part is replaced on its own.
RECURSIVE ReplaceEmptyParagraphs(_)
ReplaceEmptyParagraphs(h) ==
    LET IsMatch(i) == h[i] = "<p>" /\ h[i + 1] = "</p>"
        half == Len(h) \div 2
        cut == IF IsMatch(half) THEN half + 1 ELSE half
    IN  IF Len(h) < 2 THEN h
        ELSE IF Len(h) = 2 THEN (IF IsMatch(1) THEN <<>> ELSE h)
        ELSE ReplaceEmptyParagraphs(SubSeq(h, 1, cut))
             \o ReplaceEmptyParagraphs(SubSeq(h, cut + 1, Len(h)))

-----------------------------------------------------------------------------
(* The tokenizer (Parser::new_ext): well-nested events, a bounded stream   *)

DocKinds == {"mixed", "paragraphs", "headers", "code", "titles"}

Limit(d) ==
    CASE d = "mixed" -> MaxEvents
      [] d = "paragraphs" -> MaxParagraphEvents
      [] d = "headers" -> MaxHeaderEvents
      [] d = "code" -> MaxCodeEvents
      [] d = "titles" -> MaxTitleEvents
      [] d = "collisions" -> 3 * CollidingHeaders + MaxCollisionEvents

\* the tags a document of each kind is made of
TagsOf(d) ==
    CASE d = "mixed" -> {"Paragraph", "Header", "CodeBlock", "Link", "Code"}
      [] d = "paragraphs" -> {"Paragraph", "Code"}
      [] d = "headers" -> {"Header"}
      [] d = "code" -> {"CodeBlock"}
      [] d = "titles" -> {"Header", "Code"}
      [] d = "collisions" -> {"Header"}

TextsOf(d) ==
    CASE d \in {"headers", "collisions"} -> HeaderTexts
      [] d = "code" -> CodeTexts
      [] d = "titles" -> TitleTexts
      [] OTHER -> Texts

\* the contexts explored with each kind of document: a field that no event
\* of the kind reads keeps one value, and an engine without the anchor-link
\* template is explored with the documents made of headers, a theme name
\* without an entry with the highlighted documents made of code blocks
ContextsOf(d) ==
    {c \in Contexts :
        /\ d \notin {"mixed", "code"} =>
               ~c.highlight_code /\ ~c.content_has_fence
        /\ (d # "code" \/ ~c.highlight_code \/ ~c.content_has_fence) =>
               c.highlight_theme \in ThemeNames
        /\ d \in {"paragraphs", "code", "collisions"} => c.insert_anchor = "None"
        /\ (c.insert_anchor = "None" \/ d = "mixed") => c.anchor_link_template
        /\ d \in {"headers", "code", "titles", "collisions"} =>
               c.template = "element"}

Top == IF open = <<>> THEN "" ELSE open[Len(open)]

\* room for n more events and for the end events of the open tags
Room(n) == consumed + Len(open) + n <= Limit(doc)

CanStart(tag) ==
    /\ pc = "run"
    /\ tag \in TagsOf(doc)
    /\ Room(2)
    /\ CASE tag \in {"Paragraph", "Header", "CodeBlock"} -> open = <<>>
         [] tag = "Link" -> Top \in {"Paragraph", "Header"}
         [] tag = "Code" -> Top \in {"Paragraph", "Header", "Link"}

CanEnd(tag) == pc = "run" /\ Top = tag

CanText == pc = "run" /\ open # <<>> /\ Room(1)

CanSoftBreak == pc = "run" /\ Top \in {"Paragraph", "Link"} /\ Room(1)

\* the level of the header being read: that of the last header-start event
OpenHeaderLevel ==
    LET starts == {i \in 1..Len(events) :
                      events[i].kind = "Start" /\ events[i].tag = "Header"}
    IN  events[CHOOSE i \in starts : \A j \in starts : j <= i].num

Opened(tag) == /\ open' = Append(open, tag)
               /\ consumed' = consumed + 1
Closed == /\ open' = SubSeq(open, 1, Len(open) - 1)
          /\ consumed' = consumed + 1
Leaf == /\ open' = open
        /\ consumed' = consumed + 1

-----------------------------------------------------------------------------
(* markdown_to_html                                                        *)

\* should_highlight taken from the configuration alone
ShouldHighlightFromConfig(c) == c.highlight_code

ShouldHighlight(c) ==
    IF c.highlight_code THEN c.content_has_fence ELSE FALSE

Init ==
    /\ doc \in DocKinds
    /\ ctx \in ContextsOf(doc)
    /\ should_highlight = ShouldHighlight(ctx)
    /\ error = None
    /\ highlighter = None
    /\ shortcode_block = None
    /\ added_shortcode = FALSE
    /\ in_code_block = FALSE
    /\ in_header = FALSE
    /\ header_already_inserted = FALSE
    /\ anchors = <<>>
    /\ headers = <<>>
    /\ temp_header = DefaultTempHeader
    /\ html = <<>>
    /\ open = <<>>
    /\ consumed = 0
    /\ events = <<>>
    /\ out = EvNone
    /\ calls = <<>>
    /\ errs = <<>>
    /\ lookups = <<>>
    /\ pc = "run"
    /\ result = None
    /\ fa_args = None
    /\ fa_ret = None

Last(seq) == seq[Len(seq)]

\* the closure is called with `e`
Received(e) == events' = Append(events, e)

\* the closure returns `e`: push_html appends its rendering to html
Emit(e) ==
    /\ out' = e
    /\ html' = html \o PushHtml(e)

EndMarker == <<"{%", " ", "end", " ", "%}">>

\* the Event::Text arm with the in_code_block return placed after the
\* shortcode returns
TextPathCodeLast(text) ==
    IF IsSome(highlighter) THEN "highlight"
    ELSE IF /\ IsNone(shortcode_block)
            /\ StartsWith(text, "{{")
            /\ EndsWith(text, "}}")
            /\ ShortcodeReIsMatch(text) THEN "inline"
    ELSE IF /\ IsNone(shortcode_block)
            /\ StartsWith(text, "{%")
            /\ EndsWith(text, "%}") THEN "block"
    ELSE IF IsSome(shortcode_block)
         THEN (IF Trim(text) = EndMarker THEN "end" ELSE "body")
    ELSE IF in_code_block THEN "code"
    ELSE IF in_header
         THEN (IF header_already_inserted THEN "header_rest" ELSE "header")
    ELSE "plain"

\* the Event::Text arm without the header_already_inserted guard
TextPathAnchorEveryText(text) ==
    IF IsSome(highlighter) THEN "highlight"
    ELSE IF in_code_block THEN "code"
    ELSE IF /\ IsNone(shortcode_block)
            /\ StartsWith(text, "{{")
            /\ EndsWith(text, "}}")
            /\ ShortcodeReIsMatch(text) THEN "inline"
    ELSE IF /\ IsNone(shortcode_block)
            /\ StartsWith(text, "{%")
            /\ EndsWith(text, "%}") THEN "block"
    ELSE IF IsSome(shortcode_block)
         THEN (IF Trim(text) = EndMarker THEN "end" ELSE "body")
    ELSE IF in_header THEN "header"
    ELSE "plain"

\* which return of the Event::Text arm is taken
TextPath(text) ==
    IF IsSome(highlighter) THEN "highlight"
    ELSE IF in_code_block THEN "code"
    ELSE IF /\ IsNone(shortcode_block)
            /\ StartsWith(text, "{{")
            /\ EndsWith(text, "}}")
            /\ ShortcodeReIsMatch(text) THEN "inline"
    ELSE IF /\ IsNone(shortcode_block)
            /\ StartsWith(text, "{%")
            /\ EndsWith(text, "%}") THEN "block"
    ELSE IF IsSome(shortcode_block)
         THEN (IF Trim(text) = EndMarker THEN "end" ELSE "body")
    ELSE IF in_header
         THEN (IF header_already_inserted THEN "header_rest"
               ELSE IF find_anchor(anchors, slugify(text), 0) = Overflowed
                    THEN "overflow"
               ELSE "header")
    ELSE "plain"

\* render_simple_shortcode(context.tera, &name, &args)
RenderSimpleShortcode(text) ==
    LET sc == parse_shortcode(text)
    IN  TeraRender(ctx.template, sc.name, sc.args, <<>>)

\* shortcode.render(context.tera)
RenderShortcode(sc) == TeraRender(ctx.template, sc.name, sc.args, sc.body)

\* shortcode.append(&text)
AppendBody(sc, text) == [sc EXCEPT !.body = sc.body \o text]

\* the shortcode call made on the inline and on the closing-marker path
ShortcodeCall(path, text) ==
    IF path = "inline"
    THEN [name |-> parse_shortcode(text).name,
          args |-> parse_shortcode(text).args, body |-> <<>>]
    ELSE Unwrap(shortcode_block)

\* error = Some(e)
ErrorAfter(slot, e) == Some(e)

\* shortcode_block after the closing marker was rendered
BlockAfterEnd(block) == block

\* context.tera.render("anchor-link.html", &c): an error when the engine
\* cannot render the template
RenderAnchorLink(id) ==
    IF ctx.anchor_link_template
    THEN Ok(<<"<a class=anchor href=#">> \o id \o <<">">>)
    ELSE Err(<<"template not found", "anchor-link.html">>)

\* the .unwrap() of that render panics on an error
AnchorLinkPanics(id) ==
    ctx.insert_anchor # "None" /\ ~RenderAnchorLink(id).ok

\* anchor_link: the unwrapped render when should_insert_anchor(), else empty
AnchorLink(id) ==
    IF ctx.insert_anchor # "None" THEN RenderAnchorLink(id).val ELSE <<>>

HeaderHtml(id, text) ==
    CASE ctx.insert_anchor = "Left" ->
            <<"id=">> \o id \o <<">">> \o AnchorLink(id) \o text
      [] ctx.insert_anchor = "Right" ->
            <<"id=">> \o id \o <<">">> \o text \o AnchorLink(id)
      [] OTHER -> <<"id=">> \o id \o <<">">> \o text

EventText(text) ==
    /\ CanText
    /\ text \in TextsOf(doc)
    /\ Leaf
    /\ Received(EvText(text))
    /\ \E overflow_checks \in OverflowChecksAt(TextPath(text)) :
       LET found == FindAnchorCall(anchors, slugify(text), overflow_checks)
           reached == IF TextPath(text) = "overflow" /\ found.kind = "returned"
                      THEN "header"
                      ELSE TextPath(text)
           path == IF reached = "header" /\ AnchorLinkPanics(found.id)
                   THEN "unwrap"
                   ELSE reached
           rendered == IF path = "inline" THEN RenderSimpleShortcode(text)
                       ELSE RenderShortcode(Unwrap(shortcode_block))
           id == found.id
       IN  /\ pc' = CASE path = "overflow" -> found.kind
                      [] path = "unwrap" -> "panicked"
                      [] OTHER -> pc
           /\ Emit(CASE path = "highlight" ->
                        EvHtml(Highlighted(Unwrap(highlighter), text))
                     [] path \in {"code", "header_rest", "plain"} -> EvText(text)
                     [] path \in {"inline", "end"} ->
                        IF rendered.ok THEN EvHtml(<<"</p>">> \o rendered.val)
                        ELSE EvHtml(<<>>)
                     [] path = "block" -> EvText(<<>>)
                     [] path = "body" -> EvHtml(<<>>)
                     [] path = "header" -> EvHtml(HeaderHtml(id, text))
                     [] path \in {"overflow", "unwrap"} -> EvNone)
           /\ highlighter' =
                IF path = "highlight"
                THEN Some([Unwrap(highlighter) EXCEPT !.lines = @ + 1])
                ELSE highlighter
           /\ added_shortcode' =
                IF path \in {"inline", "end"} THEN TRUE ELSE added_shortcode
           /\ error' =
                IF path \in {"inline", "end"} /\ ~rendered.ok
                THEN ErrorAfter(error, rendered.val)
                ELSE error
           /\ errs' =
                IF path \in {"inline", "end"} /\ ~rendered.ok
                THEN Append(errs, rendered.val)
                ELSE errs
           /\ calls' =
                IF path \in {"inline", "end"}
                THEN Append(calls, ShortcodeCall(path, text))
                ELSE calls
           /\ shortcode_block' =
                CASE path = "block" /\ ShortcodeReIsMatch(text) ->
                        Some(NewShortCode(parse_shortcode(text).name,
                                          parse_shortcode(text).args))
                  [] path = "body" ->
                        Some(AppendBody(Unwrap(shortcode_block), text))
                  [] path = "end" -> BlockAfterEnd(shortcode_block)
                  [] OTHER -> shortcode_block
           /\ anchors' = IF path \in {"header", "unwrap"}
                         THEN Append(anchors, id)
                         ELSE anchors
           /\ headers' =
                IF path = "header"
                THEN Append(headers,
                            [temp_header EXCEPT
                                !.id = id,
                                !.title = text,
                                !.permalink =
                                    ctx.current_page_permalink \o <<"#">> \o id])
                ELSE headers
           /\ temp_header' =
                IF path = "header" THEN DefaultTempHeader ELSE temp_header
           /\ header_already_inserted' =
                IF path = "header" THEN TRUE ELSE header_already_inserted
    /\ UNCHANGED <<ctx, should_highlight, in_code_block, in_header, doc,
                   result, fa_args, fa_ret, lookups>>

\* everything the arms other than Event::Text leave alone
TextStateUnchanged ==
    UNCHANGED <<shortcode_block, anchors, headers, header_already_inserted,
                calls>>

Frame ==
    UNCHANGED <<ctx, should_highlight, doc, pc, result, fa_args, fa_ret,
                lookups>>

\* info.split(' ').next().and_then(find_syntax_by_token)
\*     .unwrap_or_else(find_syntax_plain_text)
SyntaxFor(info) ==
    LET found == FindSyntaxByToken(FirstSplit(info))
    IN  IF IsSome(found) THEN Unwrap(found) ELSE PlainTextSyntax

EventStartCodeBlock(info) ==
    /\ CanStart("CodeBlock")
    /\ Opened("CodeBlock")
    /\ Received(EvStart("CodeBlock", info, <<>>, 0))
    /\ in_code_block' = TRUE
    /\ IF ~should_highlight
       THEN /\ Emit(EvHtml(<<"<pre><code>">>))
            /\ highlighter' = highlighter
            /\ pc' = pc
       ELSE IF ThemeLookupPanics
       THEN /\ Emit(EvNone)
            /\ highlighter' = highlighter
            /\ pc' = "panicked"
       ELSE /\ highlighter' = Some(NewHighlightLines(SyntaxFor(info)))
            /\ Emit(EvHtml(StartColouredHtmlSnippet))
            /\ pc' = pc
    /\ TextStateUnchanged
    /\ UNCHANGED <<ctx, should_highlight, doc, result, fa_args, fa_ret,
                   lookups>>
    /\ UNCHANGED <<error, errs, added_shortcode, in_header, temp_header>>

EventEndCodeBlock ==
    /\ CanEnd("CodeBlock")
    /\ Closed
    /\ Received(EvEnd("CodeBlock", <<>>, <<>>, 0))
    /\ in_code_block' = FALSE
    /\ IF ~should_highlight
       THEN /\ Emit(EvHtml(<<"</code></pre>", "\n">>))
            /\ highlighter' = highlighter
       ELSE /\ highlighter' = None
            /\ Emit(EvHtml(<<"</pre>">>))
    /\ TextStateUnchanged
    /\ Frame
    /\ UNCHANGED <<error, errs, added_shortcode, in_header, temp_header>>

\* the relative-path test made against "../"
IsRelativeToParent(link) == StartsWith(link, "../")

IsRelative(link) == StartsWith(link, "./")

\* Event::Start(Tag::Link) without the in_header return
EventStartLinkInHeader(link, title) ==
    /\ CanStart("Link")
    /\ Opened("Link")
    /\ Received(EvStart("Link", link, title, 0))
    /\ LET resolved == resolve_internal_link(link)
           failed == IsRelative(link) /\ ~resolved.ok
           e == <<"Relative link not found.">> \o link
       IN  /\ Emit(IF IsRelative(link)
                   THEN (IF resolved.ok
                         THEN EvStart("Link", resolved.val, title, 0)
                         ELSE EvHtml(<<>>))
                   ELSE EvStart("Link", link, title, 0))
           /\ error' = IF failed THEN ErrorAfter(error, e) ELSE error
           /\ errs' = IF failed THEN Append(errs, e) ELSE errs
           /\ lookups' = IF IsRelative(link) THEN Append(lookups, link)
                         ELSE lookups
    /\ TextStateUnchanged
    /\ UNCHANGED <<ctx, should_highlight, doc, pc, result, fa_args, fa_ret>>
    /\ UNCHANGED <<highlighter, added_shortcode, in_code_block, in_header,
                   temp_header>>

EventStartLink(link, title) ==
    /\ CanStart("Link")
    /\ Opened("Link")
    /\ Received(EvStart("Link", link, title, 0))
    /\ LET resolved == resolve_internal_link(link)
           failed == ~in_header /\ IsRelative(link) /\ ~resolved.ok
           e == <<"Relative link not found.">> \o link
       IN  /\ Emit(IF in_header THEN EvHtml(<<>>)
                   ELSE IF IsRelative(link)
                        THEN (IF resolved.ok
                              THEN EvStart("Link", resolved.val, title, 0)
                              ELSE EvHtml(<<>>))
                   ELSE EvStart("Link", link, title, 0))
           /\ error' = IF failed THEN ErrorAfter(error, e) ELSE error
           /\ errs' = IF failed THEN Append(errs, e) ELSE errs
           /\ lookups' = IF ~in_header /\ IsRelative(link)
                         THEN Append(lookups, link)
                         ELSE lookups
    /\ TextStateUnchanged
    /\ UNCHANGED <<ctx, should_highlight, doc, pc, result, fa_args, fa_ret>>
    /\ UNCHANGED <<highlighter, added_shortcode, in_code_block, in_header,
                   temp_header>>

EventEndLink ==
    /\ CanEnd("Link")
    /\ Closed
    /\ Received(EvEnd("Link", <<>>, <<>>, 0))
    /\ Emit(IF in_header THEN EvHtml(<<>>) ELSE Last(events'))
    /\ TextStateUnchanged
    /\ Frame
    /\ UNCHANGED <<error, errs, highlighter, added_shortcode, in_code_block,
                   in_header, temp_header>>

EventStartCode ==
    /\ CanStart("Code")
    /\ Opened("Code")
    /\ Received(EvStart("Code", <<>>, <<>>, 0))
    /\ in_code_block' = TRUE
    /\ Emit(Last(events'))
    /\ TextStateUnchanged
    /\ Frame
    /\ UNCHANGED <<error, errs, highlighter, added_shortcode, in_header,
                   temp_header>>

EventEndCode ==
    /\ CanEnd("Code")
    /\ Closed
    /\ Received(EvEnd("Code", <<>>, <<>>, 0))
    /\ in_code_block' = FALSE
    /\ Emit(Last(events'))
    /\ TextStateUnchanged
    /\ Frame
    /\ UNCHANGED <<error, errs, highlighter, added_shortcode, in_header,
                   temp_header>>

EventStartHeader(num) ==
    /\ CanStart("Header")
    /\ Opened("Header")
    /\ Received(EvStart("Header", <<>>, <<>>, num))
    /\ in_header' = TRUE
    /\ temp_header' = NewTempHeader(num)
    /\ Emit(EvHtml(<<"<h">> \o FormatNat(num) \o <<" ">>))
    /\ TextStateUnchanged
    /\ Frame
    /\ UNCHANGED <<error, errs, highlighter, added_shortcode, in_code_block>>

EventEndHeader ==
    /\ CanEnd("Header")
    /\ Closed
    /\ Received(EvEnd("Header", <<>>, <<>>, OpenHeaderLevel))
    /\ in_header' = FALSE
    /\ header_already_inserted' = FALSE
    /\ Emit(Last(events'))
    /\ Frame
    /\ UNCHANGED <<error, errs, highlighter, added_shortcode, in_code_block,
                   temp_header, shortcode_block, anchors, headers, calls>>

EventEndParagraph ==
    /\ CanEnd("Paragraph")
    /\ Closed
    /\ Received(EvEnd("Paragraph", <<>>, <<>>, 0))
    /\ IF added_shortcode
       THEN /\ added_shortcode' = FALSE
            /\ Emit(EvHtml(<<>>))
       ELSE /\ added_shortcode' = added_shortcode
            /\ Emit(Last(events'))
    /\ TextStateUnchanged
    /\ Frame
    /\ UNCHANGED <<error, errs, highlighter, in_code_block, in_header,
                   temp_header>>

EventSoftBreak ==
    /\ CanSoftBreak
    /\ Leaf
    /\ Received(EvSoftBreak)
    /\ Emit(IF IsSome(shortcode_block) THEN EvHtml(<<>>) ELSE Last(events'))
    /\ TextStateUnchanged
    /\ Frame
    /\ UNCHANGED <<error, errs, highlighter, added_shortcode, in_code_block,
                   in_header, temp_header>>

\* the `_ => event` arm, taken by Event::Start(Tag::Paragraph)
EventOther ==
    /\ CanStart("Paragraph")
    /\ Opened("Paragraph")
    /\ Received(EvStart("Paragraph", <<>>, <<>>, 0))
    /\ Emit(Last(events'))
    /\ TextStateUnchanged
    /\ Frame
    /\ UNCHANGED <<error, errs, highlighter, added_shortcode, in_code_block,
                   in_header, temp_header>>

\* the final match returning Ok whatever the error slot holds
OutcomeIgnoringError(slot, h, hs) ==
    Ok([html |-> ReplaceEmptyParagraphs(h),
        toc |-> make_table_of_contents(hs)])

\* match error { Some(e) => Err(e), None => Ok((html.replace(..), toc)) }
Outcome(slot, h, hs) ==
    IF IsSome(slot) THEN Err(Unwrap(slot))
    ELSE Ok([html |-> ReplaceEmptyParagraphs(h),
             toc |-> make_table_of_contents(hs)])

\* the event stream is exhausted; markdown_to_html returns
Return ==
    /\ pc = "run"
    /\ open = <<>>
    /\ pc' = "done"
    /\ result' = Some(Outcome(error, html, headers))
    /\ UNCHANGED <<ctx, should_highlight, error, highlighter, shortcode_block,
                   added_shortcode, in_code_block, in_header,
                   header_already_inserted, anchors, headers, temp_header,
                   html, doc, open, consumed, events, out, calls, errs,
                   lookups, fa_args, fa_ret>>

Next ==
    \/ \E text \in Texts : EventText(text)
    \/ \E info \in Infos : EventStartCodeBlock(info)
    \/ EventEndCodeBlock
    \/ \E link \in Links : EventStartLink(link, LinkTitle)
    \/ EventEndLink
    \/ EventStartCode
    \/ EventEndCode
    \/ \E num \in HeaderLevels : EventStartHeader(num)
    \/ EventEndHeader
    \/ EventEndParagraph
    \/ EventSoftBreak
    \/ EventOther
    \/ Return

Spec == Init /\ [][Next]_vars

-----------------------------------------------------------------------------
(* find_anchor called on its own, with every registry and slug of a        *)
(* bounded set                                                             *)

SlugExample == <<"example">>
SlugExample1 == <<"example", "-", "1">>
SlugExample2 == <<"example", "-", "2">>
SlugExample3 == <<"example", "-", "3">>
SlugExample11 == <<"example", "-", "1", "-", "1">>
Slugs == {SlugExample, SlugExample1, SlugExample2, SlugExample3, SlugExample11}

\* the registries markdown_to_html can hold: no identifier twice
RECURSIVE RegistriesOfLen(_)
RegistriesOfLen(n) ==
    IF n = 0 THEN {<<>>}
    ELSE {Append(r, id) : r \in RegistriesOfLen(n - 1), id \in Slugs}

Registries ==
    {r \in UNION {RegistriesOfLen(n) : n \in 0..MaxRegistry} :
        \A i, j \in 1..Len(r) : r[i] = r[j] => i = j}

InitFindAnchor ==
    /\ doc = "headers"
    /\ ctx \in {c \in ContextsOf(doc) : c.insert_anchor = "None"}
    /\ should_highlight = ShouldHighlight(ctx)
    /\ error = None
    /\ highlighter = None
    /\ shortcode_block = None
    /\ added_shortcode = FALSE
    /\ in_code_block = FALSE
    /\ in_header = FALSE
    /\ header_already_inserted = FALSE
    /\ anchors = <<>>
    /\ headers = <<>>
    /\ temp_header = DefaultTempHeader
    /\ html = <<>>
    /\ open = <<>>
    /\ consumed = 0
    /\ events = <<>>
    /\ out = EvNone
    /\ calls = <<>>
    /\ errs = <<>>
    /\ lookups = <<>>
    /\ pc = "find_anchor"
    /\ result = None
    /\ fa_args \in {Some([anchors |-> r, name |-> n, overflow_checks |-> b]) :
                        r \in Registries, n \in {SlugExample, SlugExample1},
                        b \in BOOLEAN}
    /\ fa_ret = None

CallFindAnchor ==
    /\ pc = "find_anchor"
    /\ LET found == FindAnchorCall(Unwrap(fa_args).anchors, Unwrap(fa_args).name,
                                   Unwrap(fa_args).overflow_checks)
       IN  /\ fa_ret' = IF found.kind = "returned" THEN Some(found.id) ELSE None
           /\ pc' = found.kind
    /\ UNCHANGED <<ctx, should_highlight, error, highlighter, shortcode_block,
                   added_shortcode, in_code_block, in_header,
                   header_already_inserted, anchors, headers, temp_header,
                   html, doc, open, consumed, events, out, calls, errs,
                   lookups, result, fa_args>>

NextFindAnchor == CallFindAnchor

SpecFindAnchor == InitFindAnchor /\ [][NextFindAnchor]_vars

-----------------------------------------------------------------------------
(* A document that opens with n headers titled Example: the state          *)
(* markdown_to_html is in after reading them, and the events that follow   *)

ChainId(k) ==
    IF k = 0 THEN SlugExample ELSE SlugExample \o <<"-">> \o FormatNat(k)

\* anchors after n headers titled Example
Chain(n) == [k \in 1..n |-> ChainId(k - 1)]

CollisionEvents(n) ==
    [i \in 1..(3 * n) |->
        CASE i % 3 = 1 -> EvStart("Header", <<>>, <<>>, 1)
          [] i % 3 = 2 -> EvText(TxtExample)
          [] OTHER -> EvEnd("Header", <<>>, <<>>, 1)]

CollisionHeaders(n) ==
    [k \in 1..n |->
        [level |-> 1, id |-> ChainId(k - 1), title |-> TxtExample,
         permalink |-> ctx.current_page_permalink \o <<"#">> \o ChainId(k - 1)]]

\* html of the headers numbered from..to, and of the first n
RECURSIVE CollisionHtmlOf(_, _)
CollisionHtmlOf(from, to) ==
    IF from > to THEN <<>>
    ELSE IF from = to
         THEN PushHtml(EvHtml(<<"<h">> \o FormatNat(1) \o <<" ">>))
              \o PushHtml(EvHtml(HeaderHtml(ChainId(from - 1), TxtExample)))
              \o PushHtml(EvEnd("Header", <<>>, <<>>, 1))
    ELSE CollisionHtmlOf(from, (from + to) \div 2)
         \o CollisionHtmlOf((from + to) \div 2 + 1, to)

CollisionHtml(n) == CollisionHtmlOf(1, n)

\* the state after the n-th header-end
AfterCollisions(n) ==
    /\ error = None
    /\ highlighter = None
    /\ shortcode_block = None
    /\ added_shortcode = FALSE
    /\ in_code_block = FALSE
    /\ in_header = FALSE
    /\ header_already_inserted = FALSE
    /\ anchors = Chain(n)
    /\ headers = CollisionHeaders(n)
    /\ temp_header = DefaultTempHeader
    /\ html = CollisionHtml(n)
    /\ open = <<>>
    /\ consumed = 3 * n
    /\ events = CollisionEvents(n)
    /\ out = EvEnd("Header", <<>>, <<>>, 1)
    /\ calls = <<>>
    /\ errs = <<>>
    /\ lookups = <<>>
    /\ pc = "run"
    /\ result = None
    /\ fa_args = None
    /\ fa_ret = None

\* AfterCollisions describes the state Spec reaches: checked for the three
\* headers a "headers" document has room for
CollisionsReached ==
    (/\ doc = "headers"
     /\ ctx.insert_anchor = "None"
     /\ pc = "run"
     /\ events = CollisionEvents(3)) => AfterCollisions(3)

InitCollisions ==
    /\ doc = "collisions"
    /\ ctx \in ContextsOf(doc)
    /\ should_highlight = ShouldHighlight(ctx)
    /\ AfterCollisions(CollidingHeaders)

NextCollisions ==
    \/ \E text \in HeaderTexts : EventText(text)
    \/ \E num \in HeaderLevels : EventStartHeader(num)
    \/ EventEndHeader
    \/ Return

SpecCollisions == InitCollisions /\ [][NextCollisions]_vars

\* find_anchor called on its own with the registries of such documents
InitFindAnchorChain ==
    /\ doc = "collisions"
    /\ ctx \in ContextsOf(doc)
    /\ should_highlight = ShouldHighlight(ctx)
    /\ error = None
    /\ highlighter = None
    /\ shortcode_block = None
    /\ added_shortcode = FALSE
    /\ in_code_block = FALSE
    /\ in_header = FALSE
    /\ header_already_inserted = FALSE
    /\ anchors = <<>>
    /\ headers = <<>>
    /\ temp_header = DefaultTempHeader
    /\ html = <<>>
    /\ open = <<>>
    /\ consumed = 0
    /\ events = <<>>
    /\ out = EvNone
    /\ calls = <<>>
    /\ errs = <<>>
    /\ lookups = <<>>
    /\ pc = "find_anchor"
    /\ result = None
    /\ fa_args \in {Some([anchors |-> Chain(n), name |-> SlugExample,
                          overflow_checks |-> b]) :
                        n \in 0..CollidingHeaders, b \in BOOLEAN}
    /\ fa_ret = None

SpecFindAnchorChain == InitFindAnchorChain /\ [][NextFindAnchor]_vars

-----------------------------------------------------------------------------
(* Properties                                                              *)

Done == pc = "done"
Returned == Unwrap(result)

\* the closure has just handled an event: it is the last of events'
Handled == pc = "run" /\ Len(events') = Len(events) + 1
Handling(kind) == Handled /\ Last(events').kind = kind

RECURSIVE Concat(_)
Concat(seqs) == IF seqs = <<>> THEN <<>> ELSE Head(seqs) \o Concat(Tail(seqs))

Count(seq, x) == Cardinality({i \in 1..Len(seq) : seq[i] = x})

\* C1: when failing events occurred, the error slot holds, and the call
\* returns, the error of the earliest of them
C1_FirstErrorWins ==
    errs # <<>> =>
        /\ error = Some(errs[1])
        /\ Done => Returned = Err(errs[1])

\* C2: once a closing marker has been handled with a ShortcodeBuilder open
\* (outside code), no ShortcodeBuilder is open
C2_CloseClearsBuilder ==
    [][(/\ Handling("Text")
        /\ Trim(Last(events').s) = <<"{%", " ", "end", " ", "%}">>
        /\ IsSome(shortcode_block)
        /\ ~in_code_block
        /\ IsNone(highlighter))
       => IsNone(shortcode_block')]_vars

\* C3: an error-free call returns html with as many paragraph closes as
\* paragraph opens
C3_ParagraphsBalanced ==
    (Done /\ errs = <<>>) =>
        Count(Returned.val.html, "<p>") = Count(Returned.val.html, "</p>")

\* a link-start event whose target begins with "./" and is not in the
\* permalink table
MissingLinkAt(i) ==
    /\ events[i].kind = "Start"
    /\ events[i].tag = "Link"
    /\ events[i].s = <<"./", "missing.md">>

\* event i lies between a header-start event and its header-end event
InHeaderAt(i) ==
    Cardinality({j \in 1..(i - 1) :
                    events[j].kind = "Start" /\ events[j].tag = "Header"})
    > Cardinality({j \in 1..(i - 1) :
                    events[j].kind = "End" /\ events[j].tag = "Header"})

\* C4 as stated: a missing relative link anywhere in the document fails the
\* call
C4_MissingLinkAlwaysFails ==
    (Done /\ \E i \in 1..Len(events) : MissingLinkAt(i)) => ~Returned.ok

\* C4 amended: a missing relative link outside a header sets the error slot
\* and fails the call
C4_MissingLinkOutsideHeaderFails ==
    (\E i \in 1..Len(events) : MissingLinkAt(i) /\ ~InHeaderAt(i)) =>
        /\ IsSome(error)
        /\ Done => (~Returned.ok /\ DOMAIN Returned = {"ok", "val"}
                    /\ Returned.val \in {errs[k] : k \in 1..Len(errs)})

C4_Witness ==
    /\ Done
    /\ ~Returned.ok
    /\ \E i \in 1..Len(events) :
          MissingLinkAt(i) /\ ~InHeaderAt(i) /\ i + 2 <= Len(events)

\* C5: the AnchorRegistry never holds an identifier twice
C5_AnchorsUnique ==
    \A i, j \in 1..Len(anchors) : anchors[i] = anchors[j] => i = j

\* headers "Example", "Example", "Example 1"
C5_Witness ==
    /\ Len(events) >= 8
    /\ events[2].s = <<"Example">>
    /\ events[5].s = <<"Example">>
    /\ events[8].s = <<"Example", " ", "1">>
    /\ anchors = << <<"example">>, <<"example", "-", "1">>,
                    <<"example", "-", "1", "-", "1">> >>

\* C6: find_anchor(anchors, slug, 0) is slug when slug is unused, and
\* otherwise slug-N for the least N >= 1 with slug-N unused
SuffixToken(n) == <<"1", "2", "3", "4", "5", "6", "7", "8", "9">>[n]
Suffixed(slug, n) == slug \o <<"-", SuffixToken(n)>>
Used(reg, id) == \E i \in 1..Len(reg) : reg[i] = id
LeastUnused(reg, slug) ==
    CHOOSE n \in 1..(Len(reg) + 1) :
        /\ ~Used(reg, Suffixed(slug, n))
        /\ \A m \in 1..(n - 1) : Used(reg, Suffixed(slug, m))

C6_SmallestUnusedSuffix ==
    pc = "returned" =>
        LET reg == Unwrap(fa_args).anchors
            slug == Unwrap(fa_args).name
        IN  Unwrap(fa_ret) =
                IF ~Used(reg, slug) THEN slug
                ELSE Suffixed(slug, LeastUnused(reg, slug))

C6_Witness ==
    /\ pc = "returned"
    /\ Unwrap(fa_args).name = <<"example">>
    /\ Unwrap(fa_args).anchors =
          << <<"example", "-", "3">>, <<"example">>, <<"example", "-", "1">> >>
    /\ fa_ret = << <<"example", "-", "2">> >>

\* C7: the error slot is set exactly when some event failed; the call returns
\* Err (an error, no html, no table of contents) exactly then, and otherwise
\* the html without its "<p></p>" and the table of contents of the headers
C7_FailureIffErrorCaptured ==
    /\ IsSome(error) <=> errs # <<>>
    /\ Done =>
          IF errs # <<>>
          THEN /\ ~Returned.ok
               /\ Returned.val \in {errs[k] : k \in 1..Len(errs)}
          ELSE /\ Returned.ok
               /\ Returned.val =
                    [html |-> ReplaceEmptyParagraphs(html),
                     toc |-> make_table_of_contents(headers)]

\* an event failed, later events were handled, the call returned Err
C7_Witness ==
    /\ Done
    /\ errs # <<>>
    /\ ~Returned.ok
    /\ Last(events).kind = "End"

\* C8: a Text event handled while in_code_block is set calls no template,
\* leaves the ShortcodeBuilder, added_shortcode and the error slot alone, and
\* its text is emitted: highlighted when a highlighter is active, raw otherwise
C8_NoShortcodesInCode ==
    [][(Handling("Text") /\ in_code_block) =>
          LET text == Last(events').s
          IN  /\ calls' = calls
              /\ shortcode_block' = shortcode_block
              /\ added_shortcode' = added_shortcode
              /\ error' = error
              /\ errs' = errs
              /\ IF IsSome(highlighter)
                 THEN /\ out'.kind = "Html"
                      /\ \E i \in 1..Len(out'.s) :
                            SubSeq(out'.s, i, i + Len(text) - 1) = text
                      /\ html' = html \o out'.s
                 ELSE /\ out' = [kind |-> "Text", tag |-> "", s |-> text,
                                 arg |-> <<>>, num |-> 0]
                      /\ html' = html \o text]_vars

\* the closing marker arrives inside inline code while a ShortcodeBuilder is
\* open, and is emitted as code text
C8_Witness ==
    /\ in_code_block
    /\ IsSome(shortcode_block)
    /\ events # <<>>
    /\ Last(events).kind = "Text"
    /\ Last(events).s = <<"{%", " ", "end", " ", "%}">>
    /\ out.kind = "Text"
    /\ out.s = <<"{%", " ", "end", " ", "%}">>
    /\ calls = <<>>

\* the event stream paragraph-start, Text(opening tag), Text and SoftBreak
\* events, Text("{% end %}"), paragraph-end
IsBlockRoundTrip ==
    /\ Len(events) >= 4
    /\ events[1].kind = "Start" /\ events[1].tag = "Paragraph"
    /\ events[2].kind = "Text"
    /\ events[2].s = <<"{%", " ", "a", "(", "k", "=", "v", ")", " ", "%}">>
    /\ \A i \in 3..(Len(events) - 2) :
          \/ events[i].kind = "SoftBreak"
          \/ /\ events[i].kind = "Text"
             /\ Trim(events[i].s) # <<"{%", " ", "end", " ", "%}">>
    /\ events[Len(events) - 1].kind = "Text"
    /\ events[Len(events) - 1].s = <<"{%", " ", "end", " ", "%}">>
    /\ events[Len(events)].kind = "End"
    /\ events[Len(events)].tag = "Paragraph"

\* the Text events between the opening tag and the closing marker, in order
RoundTripBody ==
    Concat([i \in 1..(Len(events) - 4) |->
                IF events[i + 2].kind = "Text" THEN events[i + 2].s ELSE <<>>])

\* C9: a block shortcode in a paragraph calls the template engine once, with
\* the name, the arguments and the concatenated Text events of the body, and
\* the html returned is the engine's output
C9_BlockRoundTrip ==
    (Done /\ IsBlockRoundTrip /\ ctx.template # "missing") =>
        /\ calls = <<[name |-> "a", args |-> <<"k", "=", "v">>,
                      body |-> RoundTripBody]>>
        /\ Returned.ok
        /\ Returned.val.html =
              TeraRender(ctx.template, "a", <<"k", "=", "v">>, RoundTripBody).val

\* C10: without the fence marker in the source, or with highlighting
\* disabled, no highlighter exists, code blocks open with <pre><code> and
\* close with </code></pre>, and the text inside them is emitted raw; a
\* highlighter exists only with highlighting enabled and the marker present
C10_HighlightShortCircuit ==
    /\ IsSome(highlighter) => (ctx.highlight_code /\ ctx.content_has_fence)
    /\ (~ctx.highlight_code \/ ~ctx.content_has_fence) =>
          /\ IsNone(highlighter)
          /\ events # <<>> =>
                LET e == Last(events)
                IN  /\ (e.kind = "Start" /\ e.tag = "CodeBlock") =>
                          (out.kind = "Html" /\ out.s = <<"<pre><code>">>)
                    /\ (e.kind = "End" /\ e.tag = "CodeBlock") =>
                          (out.kind = "Html" /\ out.s = <<"</code></pre>", "\n">>)
                    /\ (e.kind = "Text" /\ Top = "CodeBlock") =>
                          (out.kind = "Text" /\ out.s = e.s)

\* highlighting is enabled, the source has no fence marker, and a shortcode
\* text inside an (indented) code block is emitted raw
C10_Witness ==
    /\ ctx.highlight_code
    /\ ~ctx.content_has_fence
    /\ Top = "CodeBlock"
    /\ events # <<>>
    /\ Last(events).kind = "Text"
    /\ out.kind = "Text"
    /\ out.s = Last(events).s

\* the code-block-start events received so far, and the last of them
CodeBlockStarts ==
    {i \in 1..Len(events) :
        events[i].kind = "Start" /\ events[i].tag = "CodeBlock"}
LastCodeBlockStart ==
    CHOOSE i \in CodeBlockStarts : \A j \in CodeBlockStarts : j <= i
\* the syntax named by the first space-delimited token of an info string
InfoSyntax(info) ==
    IF info # <<>> /\ info[1] = "rust" THEN "Rust" ELSE "Plain Text"

\* C11: the highlighter is present only inside a fenced code block of a
\* document that is highlighted; there it is the one installed by that
\* block's start event, with the syntax of the block's own info string
\* (plain text when the first token names no syntax) and fed only the Text
\* events of that block; outside a code block it is absent.
C11_HighlighterScopedToBlock ==
    /\ IsSome(highlighter) => (should_highlight /\ Top = "CodeBlock")
    /\ (should_highlight /\ Top = "CodeBlock") =>
          /\ IsSome(highlighter)
          /\ Unwrap(highlighter).syntax = InfoSyntax(events[LastCodeBlockStart].s)
          /\ Unwrap(highlighter).lines = Len(events) - LastCodeBlockStart

\* C12: the call never stops short of its return: while events remain it is
\* running, every event delivered so far has been handled once and in order,
\* and once the stream is exhausted it has returned a RenderOutcome; it
\* neither aborts nor hangs inside an event.
C12_AlwaysDrains ==
    /\ pc \in {"run", "done"}
    /\ Len(events) = consumed
    /\ Done => IsSome(result)

\* what a Text event does to an open ShortcodeBuilder when it is taken as
\* body text: the closing marker has the body rendered, any other text is
\* appended to the body
TakenAsBody(text) ==
    IF Trim(text) = <<"{%", " ", "end", " ", "%}">>
    THEN /\ Len(calls') = Len(calls) + 1
         /\ Last(calls') = Unwrap(shortcode_block)
    ELSE /\ calls' = calls
         /\ shortcode_block' =
                Some([Unwrap(shortcode_block) EXCEPT !.body = @ \o text])

RegistersNothing ==
    /\ anchors' = anchors
    /\ headers' = headers
    /\ header_already_inserted' = header_already_inserted

\* C13: a Text event handled while a ShortcodeBuilder is open and
\* in_header is set registers no identifier, appends no HeaderRecord, leaves
\* header_already_inserted alone, and is appended to the body or closes the
\* shortcode.
C13_HeaderTextGoesToBody ==
    [][(Handling("Text") /\ IsSome(shortcode_block) /\ in_header) =>
          /\ RegistersNothing
          /\ TakenAsBody(Last(events').s)]_vars

\* the texts of the inline form and of the block-opening form that match the
\* shortcode grammar
ShortcodeForms ==
    {<<"{{", " ", "a", "(", ")", " ", "}}">>,
     <<"{%", " ", "a", "(", "k", "=", "v", ")", " ", "%}">>}

AppendedToBody(text) ==
    /\ calls' = calls
    /\ added_shortcode' = added_shortcode
    /\ shortcode_block' =
           Some([Unwrap(shortcode_block) EXCEPT !.body = @ \o text])

\* C14: while a ShortcodeBuilder is open, a Text event of the
\* inline form or of the block-opening form calls no template, keeps the
\* builder's name and args, does not set added_shortcode, and is appended to
\* the builder's body.
C14_BodyNotReinterpreted ==
    [][(Handling("Text") /\ IsSome(shortcode_block)
            /\ Last(events').s \in ShortcodeForms) =>
          AppendedToBody(Last(events').s)]_vars

\* C15: a link-start or link-end event handled while in_header is set emits
\* empty output, looks up no permalink and leaves the error slot, the
\* AnchorRegistry, the HeaderRecords, the builder, the highlighter and every
\* flag as they were; outside a header a link-start whose target does not
\* begin with "./" is emitted with its target and title, and one whose "./"
\* target resolves is emitted with the resolved permalink and its title.
C15_HeaderLinksSuppressed ==
    [][(Handled /\ Last(events').tag = "Link") =>
          LET e == Last(events')
              resolved == resolve_internal_link(e.s)
          IN  IF in_header
              THEN /\ out' = [kind |-> "Html", tag |-> "", s |-> <<>>,
                              arg |-> <<>>, num |-> 0]
                   /\ html' = html
                   /\ lookups' = lookups
                   /\ error' = error
                   /\ errs' = errs
                   /\ anchors' = anchors
                   /\ headers' = headers
                   /\ shortcode_block' = shortcode_block
                   /\ highlighter' = highlighter
                   /\ <<in_code_block', in_header', header_already_inserted',
                        added_shortcode'>>
                      = <<in_code_block, in_header, header_already_inserted,
                          added_shortcode>>
              ELSE e.kind = "Start" =>
                   IF e.s[1] # "./"
                   THEN out' = e /\ lookups' = lookups /\ error' = error
                   ELSE /\ lookups' = Append(lookups, e.s)
                        /\ resolved.ok =>
                              /\ out' = [e EXCEPT !.s = resolved.val]
                              /\ error' = error]_vars

\* a link to a missing page opens inside a header: nothing is emitted, looked
\* up or recorded
C15_Witness ==
    /\ in_header
    /\ events # <<>>
    /\ Last(events).kind = "Start"
    /\ Last(events).tag = "Link"
    /\ Last(events).s = <<"./", "missing.md">>
    /\ out.kind = "Html"
    /\ out.s = <<>>
    /\ lookups = <<>>
    /\ error = None

\* an identifier and a HeaderRecord are added only by a Text event of a
\* header that had none yet: one identifier, and, unless the call panics
\* before it gets there, one HeaderRecord and header_already_inserted set
RegistersOncePerHeader ==
    (anchors' # anchors \/ headers' # headers) =>
        /\ Handling("Text")
        /\ in_header
        /\ ~header_already_inserted
        /\ Len(anchors') = Len(anchors) + 1
        /\ IF pc' = "run"
           THEN header_already_inserted' /\ Len(headers') = Len(headers) + 1
           ELSE headers' = headers

HeaderEndResets ==
    (Handled /\ Last(events').kind = "End" /\ Last(events').tag = "Header") =>
        ~in_header' /\ ~header_already_inserted'

PassedThrough ==
    out' = [kind |-> "Text", tag |-> "", s |-> Last(events').s,
            arg |-> <<>>, num |-> 0]

\* a Text that the shortcode branches take when met outside code: an inline
\* shortcode, a text bounded by "{%" and "%}", or any text while a
\* ShortcodeBuilder is open
TakenAsShortcode(text) ==
    \/ IsSome(shortcode_block)
    \/ text = <<"{{", " ", "a", "(", ")", " ", "}}">>
    \/ text[1] = "{%" /\ text[Len(text)] = "%}"

\* C16 as stated: between a header-start and its header-end at most one
\* identifier and one HeaderRecord are added; every Text event after the one
\* that added them passes through unchanged; header-end resets in_header and
\* header_already_inserted.
C16_OneAnchorRestUnchanged ==
    [][/\ RegistersOncePerHeader
       /\ HeaderEndResets
       /\ (Handling("Text") /\ in_header /\ header_already_inserted) =>
             PassedThrough]_vars

\* C16 amended: as stated, except that a later Text event passes through
\* unchanged when it is inside inline code or is not taken as shortcode
\* text; whichever way it is handled it registers nothing.
C16_OneAnchorPerHeader ==
    [][/\ RegistersOncePerHeader
       /\ HeaderEndResets
       /\ (Handling("Text") /\ in_header /\ header_already_inserted) =>
             /\ anchors' = anchors
             /\ headers' = headers
             /\ (in_code_block \/ ~TakenAsShortcode(Last(events').s)) =>
                    PassedThrough]_vars

\* a header of two Text events: the first registered example, the second
\* passed through
C16_Witness ==
    /\ in_header
    /\ header_already_inserted
    /\ Len(events) = 3
    /\ events[2].s = <<"Example">>
    /\ events[3].s = <<"Example", " ", "1">>
    /\ anchors = << <<"example">> >>
    /\ Len(headers) = 1
    /\ out.kind = "Text"
    /\ out.s = <<"Example", " ", "1">>

\* the output carries text: as it is, or inside the HTML of a header
Carries(e, text) ==
    /\ e.kind \in {"Text", "Html"}
    /\ \E i \in 1..Len(e.s) : SubSeq(e.s, i, i + Len(text) - 1) = text

\* C17: with no ShortcodeBuilder open and outside code, a Text event bounded
\* by "{%" and "%}" that matches the shortcode grammar is replaced by empty
\* text and opens a builder; one that does not match the grammar opens no
\* builder and is emitted with its text.
C17_OnlyMatchingOpensBlock ==
    [][(/\ Handling("Text")
        /\ IsNone(shortcode_block)
        /\ ~in_code_block
        /\ Last(events').s[1] = "{%"
        /\ Last(events').s[Len(Last(events').s)] = "%}") =>
          IF Last(events').s = <<"{%", " ", "a", "(", "k", "=", "v", ")", " ", "%}">>
          THEN /\ out' = [kind |-> "Text", tag |-> "", s |-> <<>>,
                          arg |-> <<>>, num |-> 0]
               /\ IsSome(shortcode_block')
          ELSE /\ IsNone(shortcode_block')
               /\ Carries(out', Last(events').s)]_vars

HeaderStarts ==
    {i \in 1..Len(events) :
        events[i].kind = "Start" /\ events[i].tag = "Header"}

\* the header started at event s holds a Text event (inline code included)
HasText(s) ==
    \E i \in (s + 1)..Len(events) :
        /\ events[i].kind = "Text"
        /\ \A j \in (s + 1)..i :
              ~(events[j].kind = "End" /\ events[j].tag = "Header")

HeadersWithText == {s \in HeaderStarts : HasText(s)}

\* the start event of the k-th header that holds a Text event
NthHeaderWithText(k) ==
    CHOOSE s \in HeadersWithText :
        Cardinality({t \in HeadersWithText : t <= s}) = k

\* C18: AnchorRegistry and HeaderRecords hold the same identifiers in the
\* same order as long as the call runs; once its header-end is handled, every header
\* that held a Text event has exactly one HeaderRecord, with the level of its
\* header-start and the permalink <current page permalink>#<identifier>, and
\* its open tag has been completed by exactly one id="<identifier>"> fragment.
C18_EveryHeaderRecorded ==
    /\ pc \in {"run", "done"} =>
          /\ Len(headers) = Len(anchors)
          /\ \A i \in 1..Len(headers) : headers[i].id = anchors[i]
    /\ (pc \in {"run", "done"} /\ ~in_header) =>
          /\ Len(headers) = Cardinality(HeadersWithText)
          /\ Count(html, "id=") = Cardinality(HeadersWithText)
          /\ \A k \in 1..Len(headers) :
                /\ headers[k].level = events[NthHeaderWithText(k)].num
                /\ headers[k].permalink =
                      ctx.current_page_permalink \o <<"#">> \o headers[k].id

\* name-N for the smallest N >= 1 whose name-N is not in the registry
LeastUnusedSuffix(registry, name) ==
    LET taken(n) == \E i \in 1..Len(registry) :
                       registry[i] = name \o <<"-">> \o FormatNat(n)
        least == CHOOSE n \in 1..(Len(registry) + 1) :
                    ~taken(n) /\ \A m \in 1..(n - 1) : taken(m)
    IN  name \o <<"-">> \o FormatNat(least)

\* C19: for every registry, the one holding slug and slug-1 .. slug-255
\* included, find_anchor returns: the slug when it is unused, otherwise
\* slug-N for the smallest unused N >= 1; the u8 counter never overflows,
\* wraps to 0 or keeps the call from returning.
C19_SuffixSearchNeverOverflows ==
    pc # "find_anchor" =>
        /\ pc = "returned"
        /\ fa_ret =
             Some(IF \A i \in 1..Len(Unwrap(fa_args).anchors) :
                        Unwrap(fa_args).anchors[i] # Unwrap(fa_args).name
                  THEN Unwrap(fa_args).name
                  ELSE LeastUnusedSuffix(Unwrap(fa_args).anchors,
                                         Unwrap(fa_args).name))

\* C20: while a ShortcodeBuilder is open, every Text event other
\* than the closing marker, inside code or not, is appended to the body and
\* adds nothing to the emitted HTML.
C20_AllTextGoesToBody ==
    [][(/\ Handling("Text")
        /\ IsSome(shortcode_block)
        /\ Trim(Last(events').s) # <<"{%", " ", "end", " ", "%}">>) =>
          /\ shortcode_block' =
                Some([Unwrap(shortcode_block) EXCEPT
                         !.body = @ \o Last(events').s])
          /\ html' = html]_vars

====
